---- MODULE Spec2Model ----
(***************************************************************************)
(* A model of the archive engine of 7z-rs: the compression job             *)
(* (ArchiveManager::compress_files and compress_files_parallel), the       *)
(* progress-forwarding thread, and the archive viewer (open_archive,       *)
(* open_file).                                                             *)
(*                                                                         *)
(* Files are numbered 1..n.  The file system is static during a run: each  *)
(* file has a basename, a directory-independent id, a length and a kind:   *)
(*   "ok"          metadata, open and read succeed                         *)
(*   "missing"     std::fs::metadata fails (the file does not exist)       *)
(*   "unreadable"  metadata succeeds, File::open fails (no permission)     *)
(*   "readerr"     metadata and open succeed, read_to_end fails (EISDIR)   *)
(* The content of file i is its id repeated `size` times.                  *)
(***************************************************************************)
EXTENDS Integers, Sequences, FiniteSets, TLC

\* ------------------------------------------------------------------ bounds
MaxFiles == 5
MaxSize == 2
MaxExtractors == 2
MaxViewFiles == 2
MaxLockExtractors == 1
MaxMarks == 4

\* ------------------------------------------------------- program constants
ChunkSize == 4
ExtractBuf == 8192

VARIABLES
    fs,                 \* the file system: file id -> [base, size, kind]
    diskFault,          \* id of the file whose archive write fails with an I/O error (0: none)
    selected_files,     \* ArchiveManager.selected_files (file ids)
    files,              \* the job's clone of selected_files
    password,           \* ArchiveManager.password.0: "none" or a string
    compression_sender, \* ArchiveManager.compression_sender is Some
    status_message,     \* ArchiveManager.status_message
    uiPc,               \* the UI thread: where it is in compress_files
    cancelRxAlive,      \* the receiving end _cancel_rx of the cancellation channel exists
    cancelRequested,    \* the caller has sent on the stored cancellation handle
    jobPc,              \* the compression thread: where it is in compress_files_parallel
    jobResult,          \* how compress_files_parallel ended: "none", "ok", "err", "panic"
    logged,             \* error!("Compression error: ...") was called
    total_size,         \* compress_files_parallel's total_size
    file_metadata,      \* compress_files_parallel's file_metadata: <<id, len>> pairs
    wpc,                \* per chunk: the worker's position
    widx,               \* per chunk: index (1-based) of the file being processed
    buffer,             \* per chunk: the worker's read buffer
    wprogress,          \* per chunk: the progress value it computed
    wfiles,             \* per chunk: ids of the files it tried to open (history)
    cancelObserved,     \* some worker took the cancellation early return (history)
    failed,             \* rayon's short-circuit flag: a closure returned Err
    zipLock,            \* holder of the Mutex around the ZipWriter (0: free)
    zip,                \* the ZipWriter's entries so far
    processedLock,      \* holder of the Mutex around processed_size (0: free)
    processed_size,     \* the processed-bytes counter
    stats,              \* the shared CompressionStats (the fields that are computed)
    sent,               \* every snapshot sent on the progress channel, in order
    recvd,              \* how many of them the progress thread has received
    progressPc,         \* the progress-forwarding thread
    compression_progress, \* ProgressState.compression_progress
    archive,            \* the output file on disk: "absent", "partial" or its entries
    jobPassword,        \* the password compress_files handed to the job (history)
    show_settings,      \* ArchiveManager.show_settings
    current_archive,    \* ArchiveManager.current_archive: "None" or [path, files]
    lastOpen,           \* the last open_archive call: [path, pw, result] (history)
    xpc,                \* per extraction thread: its position
    xreq,               \* per extraction thread: [path, name] it was spawned with
    xdata,              \* per extraction thread: the bytes of the entry not yet read
    xprocessed,         \* per extraction thread: processed_size
    xtotal,             \* per extraction thread: total_size
    xfault,             \* per extraction thread: "read" once a read error left the loop
    temp,               \* the files under the temporary directory: name -> content
    opened,             \* the names open_system_file was called with, in order
    extraction_progress, \* ProgressState.extraction_progress
    files_to_remove     \* ArchiveManager.files_to_remove: 0-based indices, in push order

jobVars == <<files, jobPc, jobResult, logged, total_size, file_metadata, wpc, widx, buffer,
             wprogress, wfiles, cancelObserved, failed, zipLock, zip, processedLock,
             processed_size, stats, sent, archive>>
uiVars == <<selected_files, password, compression_sender, status_message, uiPc,
            cancelRxAlive, cancelRequested, jobPassword>>
progVars == <<recvd, progressPc, compression_progress>>
viewVars == <<show_settings, current_archive, lastOpen>>
extVars == <<xpc, xreq, xdata, xprocessed, xtotal, xfault, temp, opened, extraction_progress>>
envVars == <<fs, diskFault>>
vars == <<envVars, uiVars, jobVars, progVars, viewVars, extVars, files_to_remove>>

\* ----------------------------------------------------------------- helpers
Ids == 1..MaxFiles
MaxChunks == (MaxFiles + ChunkSize - 1) \div ChunkSize
Chunks == 1..MaxChunks
Names == {"a", "b", "c", "d", "e", "f", "g"}
Kinds == {"ok", "missing", "unreadable", "readerr"}
Passwords == {"p", "q"}
Extractors == 1..MaxExtractors
Paths == {"out", "foreign"}
EntryNames == Names \cup {"x"}
\* Option::None for the progress cells and for current_archive.
NoFraction == [num |-> -1, den |-> 1]
NoSnapshot == [fraction |-> NoFraction, stats |-> [original_size |-> 0, compressed_size |-> 0]]
NoArchive == [path |-> "none", files |-> <<>>]

RECURSIVE SeqSum(_)
SeqSum(s) == IF s = <<>> THEN 0 ELSE Head(s) + SeqSum(Tail(s))

RECURSIVE Repeat(_, _)
Repeat(x, n) == IF n = 0 THEN <<>> ELSE <<x>> \o Repeat(x, n - 1)

Range(s) == {s[i] : i \in DOMAIN s}

\* The byte content of file i.
Content(i) == Repeat(i, fs[i].size)

\* A probe that takes a failed metadata call for a file of length 0
\* (unwrap_or_default in place of ok()).
MetadataDefault(i) == TRUE

\* std::fs::metadata(path).ok(): None for a missing file.
MetadataOk(i) == fs[i].kind # "missing"

\* path.file_name(): the basename, whatever the directory.
FileName(i) == fs[i].base

\* files.iter().filter_map(|p| metadata(p).ok()).map(|m| m.len()).sum()
SizeProbe(paths) ==
    SeqSum([k \in DOMAIN paths |-> IF MetadataOk(paths[k]) THEN fs[paths[k]].size ELSE 0])

\* files.iter().filter_map(|p| metadata(p).ok().map(|m| (p.clone(), m.len()))).collect()
ProbeMetadata(paths) ==
    LET pairs == [k \in DOMAIN paths |-> <<paths[k], fs[paths[k]].size>>]
    IN SelectSeq(pairs, LAMBDA p : MetadataOk(p[1]))

\* A chunking that drops the remainder (chunks_exact).
NumChunksExact(n) == n \div ChunkSize

\* slice.par_chunks(ChunkSize): the number of chunks and the items of chunk c.
NumChunks(n) == (n + ChunkSize - 1) \div ChunkSize
ChunkLen(c) ==
    LET n == Len(file_metadata)
        lo == (c - 1) * ChunkSize
    IN IF n - lo >= ChunkSize THEN ChunkSize ELSE IF n > lo THEN n - lo ELSE 0
ChunkItem(c, i) == file_metadata[(c - 1) * ChunkSize + i]

\* progress = *processed as f32 / total_size as f32, kept as a fraction; 0/0 is NaN.
Fraction(p, t) == [num |-> p, den |-> t]
IsNaN(f) == f.den = 0
One == [num |-> 1, den |-> 1]
\* a <= b on fractions; false when either is NaN, as for f32.
FracLeq(a, b) == ~IsNaN(a) /\ ~IsNaN(b) /\ a.num * b.den <= b.num * a.den
FracEq(a, b) == FracLeq(a, b) /\ FracLeq(b, a)

\* progress - (progress * 100.0).floor() / 100.0 < 0.01, in exact arithmetic;
\* every comparison with NaN is false.
Throttle(f) ==
    IF IsNaN(f) THEN FALSE
    ELSE LET floorPct == (100 * f.num) \div f.den
         IN 100 * f.num - floorPct * f.den < f.den

\* The entry start_file opens under FileOptions::default() with Deflated, level 5
\* and mode 0o755: no encryption is asked for.
NewEntry(name) == [name |-> name, data |-> <<>>, encrypted |-> FALSE, key |-> "none"]

\* ZipWriter::start_file rejects a name that is already in the archive.
HasName(entries, name) == \E k \in DOMAIN entries : entries[k].name = name

\* ArchiveWriter: the length of the finalized output file (one header byte per
\* entry and one for the central directory, plus the payloads).
ArchiveLen(entries) ==
    SeqSum([k \in DOMAIN entries |-> Len(entries[k].data) + 1]) + 1

\* ------------------------------------------------------------------- Init
\* The size of file i under a size pattern.
SizeOf(mode, i) == IF mode = "zeros" THEN 0 ELSE i % (MaxSize + 1)

BaseOf(i) == CASE i = 1 -> "a" [] i = 2 -> "b" [] i = 3 -> "c" [] i = 4 -> "d"
               [] i = 5 -> "e" [] i = 6 -> "f" [] OTHER -> "g"

FaultKinds == {"missing", "unreadable", "readerr", "writeerr", "dup"}

\* The file system with one faulty file (at 0: none): a missing, unreadable or
\* unreadable-as-a-file path, or a path whose basename repeats file 1's.
FileSystem(mode, at, kind) ==
    [i \in Ids |->
        [base |-> IF i = at /\ kind = "dup" /\ i > 1 THEN BaseOf(1) ELSE BaseOf(i),
         size |-> SizeOf(mode, i),
         kind |-> IF i = at /\ kind \in Kinds THEN kind ELSE "ok"]]

Init ==
    /\ \E n \in 0..MaxFiles, mode \in {"zeros", "mixed"}, at \in 0..MaxFiles,
          kind \in FaultKinds :
          /\ at <= n
          /\ at = 0 => kind = "missing"
          /\ (kind = "dup") => at > 1
          /\ fs = FileSystem(mode, at, kind)
          /\ diskFault = IF kind = "writeerr" THEN at ELSE 0
          /\ selected_files = [k \in 1..n |-> k]
    /\ password \in {"none"} \cup Passwords
    /\ compression_sender = FALSE
    /\ status_message = ""
    /\ uiPc = "idle"
    /\ cancelRxAlive = FALSE
    /\ cancelRequested = FALSE
    /\ files = <<>>
    /\ jobPc = "idle"
    /\ jobResult = "none"
    /\ logged = FALSE
    /\ total_size = 0
    /\ file_metadata = <<>>
    /\ wpc = [c \in Chunks |-> "none"]
    /\ widx = [c \in Chunks |-> 1]
    /\ buffer = [c \in Chunks |-> <<>>]
    /\ wprogress = [c \in Chunks |-> NoFraction]
    /\ wfiles = [c \in Chunks |-> <<>>]
    /\ cancelObserved = FALSE
    /\ failed = FALSE
    /\ zipLock = 0
    /\ zip = <<>>
    /\ processedLock = 0
    /\ processed_size = 0
    /\ stats = [original_size |-> 0, compressed_size |-> 0]
    /\ sent = <<>>
    /\ recvd = 0
    /\ progressPc = "idle"
    /\ compression_progress = NoSnapshot
    /\ archive = [state |-> "absent", entries |-> <<>>]
    /\ jobPassword = "none"
    /\ show_settings = FALSE
    /\ current_archive = NoArchive
    /\ lastOpen = [path |-> "none", pw |-> "none", result |-> "none"]
    /\ xpc = [x \in Extractors |-> "idle"]
    /\ xreq = [x \in Extractors |-> [path |-> "none", name |-> "none"]]
    /\ xdata = [x \in Extractors |-> <<>>]
    /\ xprocessed = [x \in Extractors |-> 0]
    /\ xtotal = [x \in Extractors |-> 0]
    /\ xfault = [x \in Extractors |-> "none"]
    /\ temp = [n \in EntryNames |-> "absent"]
    /\ opened = <<>>
    /\ extraction_progress = NoFraction
    /\ files_to_remove = <<>>

\* ------------------------------------------------- compress_files (UI thread)
\* self.password.0.clone().unwrap(): panics on None.
PasswordUnwrap(pw) == IF pw = "none" THEN "panic" ELSE pw

\* ArchiveManager::compress_files up to the spawn of the compression thread.
\* The save dialog either yields a destination or is dismissed.
StartCompress ==
    /\ uiPc = "idle"
    /\ jobPc = "idle"
    /\ \/ /\ selected_files = <<>>
          /\ status_message' = "No files selected"
          /\ UNCHANGED <<selected_files, password, compression_sender, uiPc,
                         cancelRxAlive, cancelRequested, jobPassword, jobVars>>
       \/ /\ selected_files # <<>>
          /\ UNCHANGED <<uiVars, jobVars>>
       \/ /\ selected_files # <<>>
          /\ PasswordUnwrap(password) = "panic"
          /\ uiPc' = "panic_compress"
          /\ UNCHANGED <<selected_files, password, compression_sender, status_message,
                         cancelRxAlive, cancelRequested, jobPassword, jobVars>>
       \/ /\ selected_files # <<>>
          /\ PasswordUnwrap(password) # "panic"
          /\ files' = selected_files
          /\ cancelRxAlive' = TRUE
          /\ stats' = [original_size |-> SizeProbe(selected_files), compressed_size |-> 0]
          /\ jobPassword' = PasswordUnwrap(password)
          /\ compression_sender' = TRUE
          /\ jobPc' = "probe"
          /\ uiPc' = "spawned"
          /\ UNCHANGED <<selected_files, password, status_message, cancelRequested,
                         jobResult, logged, total_size, file_metadata, wpc, widx, buffer,
                         wprogress, wfiles, cancelObserved, failed, zipLock, zip,
                         processedLock, processed_size, sent, archive>>
    /\ UNCHANGED <<envVars, files_to_remove, progVars, viewVars, extVars>>

\* The rest of compress_files: the progress thread is spawned, and the block ends,
\* which drops _cancel_rx.
CompressFilesReturn ==
    /\ uiPc = "spawned"
    /\ progressPc' = "recv"
    /\ cancelRxAlive' = FALSE
    /\ uiPc' = "idle"
    /\ UNCHANGED <<envVars, files_to_remove, selected_files, password, compression_sender, status_message,
                   cancelRequested, jobPassword, jobVars, recvd, compression_progress,
                   viewVars, extVars>>

\* CancelCompress: the caller signals on the stored sender.  Nothing reads the
\* channel; the send changes no state a worker looks at.
CancelCompress ==
    /\ uiPc = "idle"
    /\ compression_sender
    /\ jobPc \in {"probe", "workers"}
    /\ ~cancelRequested
    /\ cancelRequested' = TRUE
    /\ UNCHANGED <<envVars, files_to_remove, selected_files, password, compression_sender, status_message,
                   uiPc, cancelRxAlive, jobPassword, jobVars, progVars, viewVars, extVars>>

\* ------------------------------------- compress_files_parallel (job thread)
\* total_size, File::create and file_metadata; then the chunks are handed to rayon.
JobProbe ==
    /\ jobPc = "probe"
    /\ total_size' = SizeProbe(files)
    /\ \/ /\ jobResult' = "err"
          /\ logged' = TRUE
          /\ jobPc' = "ended"
          /\ UNCHANGED <<file_metadata, wpc, archive>>
       \/ /\ archive' = [state |-> "partial", entries |-> <<>>]
          /\ file_metadata' = ProbeMetadata(files)
          /\ wpc' = [c \in Chunks |->
                        IF c <= NumChunks(Len(ProbeMetadata(files))) THEN "check" ELSE "none"]
          /\ jobPc' = "workers"
          /\ UNCHANGED <<jobResult, logged>>
    /\ UNCHANGED <<envVars, files_to_remove, uiVars, progVars, viewVars, extVars, files, widx, buffer, wprogress, wfiles,
                   cancelObserved, failed, zipLock, zip, processedLock, processed_size,
                   stats, sent>>

\* cancel_rx.lock().unwrap().send(()).is_ok(): the send succeeds exactly while the
\* receiving end exists.
CancelCheck == cancelRxAlive

\* The head of the per-file loop: the cancellation check.  A chunk rayon has not
\* started is dropped once another closure has returned Err.
WorkerCheck(c) ==
    /\ wpc[c] = "check"
    /\ \/ /\ CancelCheck
          /\ wpc' = [wpc EXCEPT ![c] = "cancelled"]
          /\ cancelObserved' = TRUE
       \/ /\ ~CancelCheck
          /\ wpc' = [wpc EXCEPT ![c] = "read"]
          /\ UNCHANGED cancelObserved
       \/ /\ failed
          /\ widx[c] = 1
          /\ wpc' = [wpc EXCEPT ![c] = "skipped"]
          /\ UNCHANGED cancelObserved
    /\ UNCHANGED <<envVars, files_to_remove, uiVars, progVars, viewVars, extVars, files, jobPc, jobResult, logged, total_size,
                   file_metadata, widx, buffer, wprogress, wfiles, failed, zipLock,
                   zip, processedLock, processed_size, stats, sent, archive>>

\* buffer.clear()
BufferClear(b) == <<>>

\* File::open(path)?, buffer.clear(), reader.read_to_end(&mut buffer)?
WorkerRead(c) ==
    /\ wpc[c] = "read"
    /\ LET id == ChunkItem(c, widx[c])[1] IN
        /\ wfiles' = [wfiles EXCEPT ![c] = Append(@, id)]
        /\ \/ /\ fs[id].kind # "ok"
              /\ wpc' = [wpc EXCEPT ![c] = "failed"]
              /\ failed' = TRUE
              /\ UNCHANGED buffer
           \/ /\ fs[id].kind = "ok"
              /\ buffer' = [buffer EXCEPT ![c] = BufferClear(buffer[c]) \o Content(id)]
              /\ wpc' = [wpc EXCEPT ![c] = "lock_zip"]
              /\ UNCHANGED failed
    /\ UNCHANGED <<envVars, files_to_remove, uiVars, progVars, viewVars, extVars, files, jobPc, jobResult, logged, total_size,
                   file_metadata, widx, wprogress, cancelObserved, zipLock, zip,
                   processedLock, processed_size, stats, sent, archive>>

\* A lock that does not exclude: the archive writer shared without the mutex.
ZipLockIgnored == TRUE

\* The processed guard dropped before the send: the counter's lock no longer orders
\* the sends.
ProcessedLockIgnored == TRUE

\* zip.lock(): blocks until the mutex around the ZipWriter is free.
ZipLockFree == zipLock = 0

\* processed_size.lock(): blocks until the mutex around the counter is free.
ProcessedLockFree == processedLock = 0

\* let mut zip = zip.lock().unwrap();
WorkerLockZip(c) ==
    /\ wpc[c] = "lock_zip"
    /\ ZipLockFree
    /\ zipLock' = c
    /\ wpc' = [wpc EXCEPT ![c] = "start_file"]
    /\ UNCHANGED <<envVars, files_to_remove, uiVars, progVars, viewVars, extVars, files, jobPc, jobResult, logged, total_size,
                   file_metadata, widx, buffer, wprogress, wfiles, cancelObserved, failed,
                   zip, processedLock, processed_size, stats, sent, archive>>

\* An early return that leaves the archive writer locked by the worker that
\* returned.
ZipGuardLeaked(c) == c

\* The holder of the archive writer's mutex after the `?` of start_file has returned
\* from the closure: the guard goes out of scope, the mutex is free.
ZipGuardDropped(c) == 0

\* zip.start_file(&file_name, options)?: a repeated name is an error; the guard is
\* dropped on the early return.
WorkerStartFile(c) ==
    /\ wpc[c] = "start_file"
    /\ LET id == ChunkItem(c, widx[c])[1] IN
        \/ /\ HasName(zip, FileName(id))
           /\ wpc' = [wpc EXCEPT ![c] = "failed"]
           /\ failed' = TRUE
           /\ zipLock' = ZipGuardDropped(c)
           /\ UNCHANGED zip
        \/ /\ ~HasName(zip, FileName(id))
           /\ zip' = Append(zip, NewEntry(FileName(id)))
           /\ wpc' = [wpc EXCEPT ![c] = "write_all"]
           /\ UNCHANGED <<failed, zipLock>>
    /\ UNCHANGED <<envVars, files_to_remove, uiVars, progVars, viewVars, extVars, files, jobPc, jobResult, logged, total_size,
                   file_metadata, widx, buffer, wprogress, wfiles, cancelObserved,
                   processedLock, processed_size, stats, sent, archive>>

\* zip.write_all(&buffer)?, and the end of the block, which drops the guard.
WorkerWriteAll(c) ==
    /\ wpc[c] = "write_all"
    /\ LET id == ChunkItem(c, widx[c])[1] IN
        \/ /\ diskFault = id
           /\ wpc' = [wpc EXCEPT ![c] = "failed"]
           /\ failed' = TRUE
           /\ UNCHANGED zip
        \/ /\ diskFault # id
           /\ zip' = [zip EXCEPT ![Len(zip)].data = buffer[c]]
           /\ wpc' = [wpc EXCEPT ![c] = "add"]
           /\ UNCHANGED failed
    /\ zipLock' = 0
    /\ UNCHANGED <<envVars, files_to_remove, uiVars, progVars, viewVars, extVars, files, jobPc, jobResult, logged, total_size,
                   file_metadata, widx, buffer, wprogress, wfiles, cancelObserved,
                   processedLock, processed_size, stats, sent, archive>>

\* let mut processed = processed_size.lock().unwrap(); *processed += file_size;
\* let progress = *processed as f32 / total_size as f32;
WorkerAdd(c) ==
    /\ wpc[c] = "add"
    /\ ProcessedLockFree
    /\ processedLock' = c
    /\ processed_size' = processed_size + ChunkItem(c, widx[c])[2]
    /\ wprogress' = [wprogress EXCEPT ![c] = Fraction(processed_size', total_size)]
    /\ wpc' = [wpc EXCEPT ![c] = "emit"]
    /\ UNCHANGED <<envVars, files_to_remove, uiVars, progVars, viewVars, extVars, files, jobPc, jobResult, logged, total_size,
                   file_metadata, widx, buffer, wfiles, cancelObserved, failed, zipLock,
                   zip, stats, sent, archive>>

\* stats.lock(): the mutex around the stats record is held by the worker that is at
\* its send (parallel.rs:78-88) and, at the end of the job, by the job thread for
\* the length of JobFinalize.
StatsLockFree == \A c \in Chunks : wpc[c] # "send"

\* if progress - ... < 0.01 { if let Ok(mut stats) = stats.lock() {: taken while the
\* processed guard is held.
WorkerLockStats(c) ==
    /\ wpc[c] = "emit"
    /\ Throttle(wprogress[c])
    /\ StatsLockFree
    /\ wpc' = [wpc EXCEPT ![c] = "send"]
    /\ UNCHANGED <<envVars, files_to_remove, uiVars, progVars, viewVars, extVars, files, jobPc, jobResult, logged, total_size,
                   file_metadata, widx, buffer, wprogress, wfiles, cancelObserved, failed,
                   zipLock, zip, processedLock, processed_size, stats, sent, archive>>

\* progress_tx.send((progress, stats_clone)) under the stats guard, or nothing when
\* the throttle test fails; then the end of the loop body, which drops the stats
\* guard and the processed guard.
WorkerEmit(c) ==
    /\ \/ /\ wpc[c] = "send"
          /\ sent' = Append(sent, [fraction |-> wprogress[c], stats |-> stats])
       \/ /\ wpc[c] = "emit"
          /\ ~Throttle(wprogress[c])
          /\ UNCHANGED sent
    /\ processedLock' = 0
    /\ widx' = [widx EXCEPT ![c] = @ + 1]
    /\ wpc' = [wpc EXCEPT ![c] = IF widx[c] = ChunkLen(c) THEN "done" ELSE "check"]
    /\ UNCHANGED <<envVars, files_to_remove, uiVars, progVars, viewVars, extVars, files, jobPc, jobResult, logged, total_size,
                   file_metadata, buffer, wprogress, wfiles, cancelObserved, failed,
                   zipLock, zip, processed_size, stats, archive>>

WorkerEnded(c) == wpc[c] \in {"none", "done", "cancelled", "failed", "skipped"}

\* try_for_each(...).expect("Failed to parallel"): Ok when every closure returned
\* Ok, a panic when one returned Err.
ExpectResult(anyErr) == IF anyErr THEN "panic" ELSE "ok"

\* The end of the parallel phase.
JobJoin ==
    /\ jobPc = "workers"
    /\ \A c \in Chunks : WorkerEnded(c)
    /\ \/ /\ ExpectResult(failed) = "panic"
          /\ jobResult' = "panic"
          /\ jobPc' = "ended"
       \/ /\ ExpectResult(failed) = "ok"
          /\ jobPc' = "finalize"
          /\ UNCHANGED jobResult
    /\ UNCHANGED <<envVars, files_to_remove, uiVars, progVars, viewVars, extVars, files, logged, total_size, file_metadata,
                   wpc, widx, buffer, wprogress, wfiles, cancelObserved, failed, zipLock,
                   zip, processedLock, processed_size, stats, sent, archive>>

\* final_zip.finish(), compressed_size, and the final progress_tx.send((1.0, stats)).
JobFinalize ==
    /\ jobPc = "finalize"
    /\ StatsLockFree
    /\ archive' = [state |-> "final", entries |-> zip]
    /\ stats' = [stats EXCEPT !.compressed_size = ArchiveLen(zip)]
    /\ sent' = Append(sent, [fraction |-> One, stats |-> stats'])
    /\ jobResult' = "ok"
    /\ jobPc' = "ended"
    /\ UNCHANGED <<envVars, files_to_remove, uiVars, progVars, viewVars, extVars, files, logged, total_size, file_metadata,
                   wpc, widx, buffer, wprogress, wfiles, cancelObserved, failed, zipLock,
                   zip, processedLock, processed_size>>

\* ------------------------------------------------------- progress thread
\* progress_state.lock(): the mutex around the progress cells is held across steps
\* only by the presentation layer while it draws a progress bar; the threads that
\* store into a cell take and release it within one step.
StateLockFree == uiPc # "polling"

\* while let Ok((progress, stats)) = progress_rx.recv() { state.compression_progress = Some(..) }
ProgressRecv ==
    /\ progressPc = "recv"
    /\ recvd < Len(sent)
    /\ StateLockFree
    /\ recvd' = recvd + 1
    /\ compression_progress' = sent[recvd + 1]
    /\ UNCHANGED <<envVars, files_to_remove, uiVars, jobVars, progressPc, viewVars, extVars>>

\* A sending end of the progress channel that outlives the job.
SenderKept == FALSE

\* compress_files_parallel owns progress_tx: the only sending end is dropped when
\* the function returns or unwinds.
SenderDropped == jobPc = "ended"

\* recv() fails once the channel is empty and the job has dropped progress_tx.
ProgressEnd ==
    /\ progressPc = "recv"
    /\ recvd = Len(sent)
    /\ SenderDropped
    /\ progressPc' = "ended"
    /\ UNCHANGED <<envVars, files_to_remove, uiVars, jobVars, recvd, compression_progress, viewVars,
                   extVars>>

\* ------------------------------------------------------------ the viewer
\* A protected archive made elsewhere with password "p".
ForeignArchive ==
    [state |-> "final",
     entries |-> <<[name |-> "x", data |-> <<9>>, encrypted |-> TRUE, key |-> "p"]>>]

DiskArchive(path) == IF path = "out" THEN archive ELSE ForeignArchive

\* The user turns to the viewer once the compression job and its progress thread
\* have ended.
ViewerReady ==
    uiPc = "idle" /\ jobPc = "ended" /\ progressPc = "ended" /\ Len(files) <= MaxViewFiles

\* A decryption that accepts any password for an encrypted entry.
ByIndexDecryptUnchecked(e, pw) == "ok"

\* archive.by_index_decrypt(i, password): a password given for an entry that is not
\* encrypted is discarded.
ByIndexDecrypt(e, pw) ==
    IF ~e.encrypted THEN "ok" ELSE IF e.key = pw THEN "ok" ELSE "InvalidPassword"

\* archive.by_index(i)
ByIndex(e) == IF e.encrypted THEN "PasswordRequired" ELSE "ok"

\* ArchiveFile { name, is_directory, size }
ArchiveFileOf(e) == [name |-> e.name, is_directory |-> FALSE, size |-> Len(e.data)]

\* open_archive without the early return for a protected archive and no password:
\* it goes on to by_index.
OpenArchiveOutcomeNoGate(path, pw) ==
    LET file == DiskArchive(path)
        disk == file.entries
        Listing == [k \in DOMAIN disk |-> ArchiveFileOf(disk[k])]
        Fail(r) == [result |-> r, files |-> <<>>]
    IN  IF file.state = "absent" THEN Fail("io_error")
        ELSE IF file.state = "partial" THEN Fail("invalid_archive")
        ELSE IF Len(disk) = 0 THEN Fail("panic")
        ELSE IF pw # "none"
             THEN IF \E k \in DOMAIN disk : ByIndexDecrypt(disk[k], pw) # "ok"
                  THEN Fail("invalid_password")
                  ELSE [result |-> "listed", files |-> Listing]
        ELSE IF \E k \in DOMAIN disk : ByIndex(disk[k]) # "ok"
             THEN Fail("password_required")
             ELSE [result |-> "listed", files |-> Listing]

\* ArchiveManager::open_archive as a function of the file at `path` and the password
\* set: what it ends with, and the listing when it lists.
OpenArchiveOutcome(path, pw) ==
    LET file == DiskArchive(path)
        disk == file.entries
        Listing == [k \in DOMAIN disk |-> ArchiveFileOf(disk[k])]
        Fail(r) == [result |-> r, files |-> <<>>]
    IN  IF file.state = "absent" THEN Fail("io_error")
        ELSE IF file.state = "partial" THEN Fail("invalid_archive")
        ELSE IF Len(disk) = 0 THEN Fail("panic")
        ELSE IF disk[1].encrypted /\ pw = "none" THEN Fail("needs_password")
        ELSE IF pw # "none"
             THEN IF \E k \in DOMAIN disk : ByIndexDecrypt(disk[k], pw) # "ok"
                  THEN Fail("invalid_password")
                  ELSE [result |-> "listed", files |-> Listing]
        ELSE IF \E k \in DOMAIN disk : ByIndex(disk[k]) # "ok"
             THEN Fail("password_required")
             ELSE [result |-> "listed", files |-> Listing]

\* The status message of the early return for a protected archive.
NeedsPasswordMessage == "Archive is encrypted. Please enter password in settings."

\* An archive dropped on the extract zone: handle_drops, handle_file_drop and
\* open_archive.  An Err becomes the status message; the unwrap of
\* get_aes_verification_key_and_salt(0) panics on an archive with no entry.
OpenArchive(path) ==
    /\ ViewerReady
    /\ LET out == OpenArchiveOutcome(path, password) IN
        /\ lastOpen' = [path |-> path, pw |-> password, result |-> out.result]
        /\ uiPc' = IF out.result = "panic" THEN "panic_open_archive" ELSE uiPc
        /\ status_message' =
              CASE out.result = "listed" -> "Archive opened successfully"
                [] out.result = "needs_password" -> NeedsPasswordMessage
                [] out.result = "panic" -> status_message
                [] OTHER -> "Error handling dropped file: " \o out.result
        /\ show_settings' = IF out.result = "needs_password" THEN TRUE ELSE show_settings
        /\ current_archive' = IF out.result = "listed"
                              THEN [path |-> path, files |-> out.files]
                              ELSE current_archive
    /\ UNCHANGED <<envVars, files_to_remove, selected_files, password, compression_sender, cancelRxAlive,
                   cancelRequested, jobPassword, jobVars, progVars, extVars>>

\* The Settings button.
ToggleSettings ==
    /\ ViewerReady
    /\ show_settings' = ~show_settings
    /\ UNCHANGED <<envVars, files_to_remove, uiVars, jobVars, progVars, current_archive, lastOpen, extVars>>

\* Password::set: the empty string clears the password.
PasswordSet(value) == IF value = "" THEN "none" ELSE value

\* The settings panel's password callback.
SetPassword(value) ==
    /\ ViewerReady
    /\ show_settings
    /\ password' = PasswordSet(value)
    /\ UNCHANGED <<envVars, files_to_remove, selected_files, compression_sender, status_message, uiPc,
                   cancelRxAlive, cancelRequested, jobPassword, jobVars, progVars,
                   viewVars, extVars>>

\* ------------------------------------------------------------- open_file
Min(a, b) == IF a < b THEN a ELSE b
SubSeqTo(q, n) == SubSeq(q, 1, n)
SubSeqFrom(q, n) == SubSeq(q, n + 1, Len(q))

\* archive.by_name(&file_name): the entry's index, 0 when no entry has the name.
ByName(entries, name) ==
    IF \E k \in DOMAIN entries : entries[k].name = name
    THEN CHOOSE k \in DOMAIN entries :
            /\ entries[k].name = name
            /\ \A j \in DOMAIN entries : entries[j].name = name => k <= j
    ELSE 0

\* A name no archive has an entry for.
AbsentName == "g"

\* The names open_file is called with: those of the listing (a double click on a
\* listed file) and one that is in no archive.
RequestNames ==
    {current_archive.files[k].name : k \in DOMAIN current_archive.files} \cup {AbsentName}

\* open_file: with an archive open it spawns an extraction thread (the threads are
\* numbered in the order they are spawned) and returns Ok(()).
OpenFile(x, name) ==
    /\ ViewerReady
    /\ current_archive # NoArchive
    /\ name \in RequestNames
    /\ xpc[x] = "idle"
    /\ \A y \in Extractors : y < x => xpc[y] # "idle"
    /\ xpc' = [xpc EXCEPT ![x] = "open"]
    /\ xreq' = [xreq EXCEPT ![x] = [path |-> current_archive.path, name |-> name]]
    /\ UNCHANGED <<envVars, files_to_remove, uiVars, jobVars, progVars, viewVars, xdata, xprocessed,
                   xtotal, xfault, temp, opened, extraction_progress>>

\* The thread up to File::create(&temp_path): every failure is an unwrap, a panic
\* of the thread.
ExtractOpen(x) ==
    /\ xpc[x] = "open"
    /\ LET file == DiskArchive(xreq[x].path)
           disk == file.entries
           k == IF file.state # "final" THEN 0 ELSE ByName(disk, xreq[x].name)
       IN IF k = 0 \/ ByIndex(disk[k]) # "ok"
          THEN /\ xpc' = [xpc EXCEPT ![x] = "panicked"]
               /\ UNCHANGED <<xdata, xtotal, xprocessed, temp>>
          ELSE /\ xtotal' = [xtotal EXCEPT ![x] = Len(disk[k].data)]
               /\ xdata' = [xdata EXCEPT ![x] = disk[k].data]
               /\ xprocessed' = [xprocessed EXCEPT ![x] = 0]
               /\ temp' = [temp EXCEPT ![xreq[x].name] = <<>>]
               /\ xpc' = [xpc EXCEPT ![x] = "stream"]
    /\ UNCHANGED <<envVars, files_to_remove, uiVars, jobVars, progVars, viewVars, xreq, xfault, opened,
                   extraction_progress>>

\* One turn of while let Ok(n) = zip_file.read(&mut buffer): a read error or the end
\* of the entry leaves the loop; a write error is an unwrap.
ExtractRead(x) ==
    /\ xpc[x] = "stream"
    /\ \/ /\ xdata[x] = <<>>
          /\ xpc' = [xpc EXCEPT ![x] = "finish"]
          /\ UNCHANGED <<xdata, xprocessed, xfault, temp, extraction_progress>>
       \/ /\ xpc' = [xpc EXCEPT ![x] = "finish"]
          /\ xfault' = [xfault EXCEPT ![x] = "read"]
          /\ UNCHANGED <<xdata, xprocessed, temp, extraction_progress>>
       \/ /\ xdata[x] # <<>>
          /\ xpc' = [xpc EXCEPT ![x] = "panicked"]
          /\ UNCHANGED <<xdata, xprocessed, xfault, temp, extraction_progress>>
       \/ /\ xdata[x] # <<>>
          /\ StateLockFree
          /\ \E n \in 1..Min(ExtractBuf, Len(xdata[x])) :
              /\ temp' = [temp EXCEPT ![xreq[x].name] = @ \o SubSeqTo(xdata[x], n)]
              /\ xdata' = [xdata EXCEPT ![x] = SubSeqFrom(@, n)]
              /\ xprocessed' = [xprocessed EXCEPT ![x] = @ + n]
              /\ extraction_progress' = Fraction(xprocessed[x] + n, xtotal[x])
          /\ UNCHANGED <<xpc, xfault>>
    /\ UNCHANGED <<envVars, files_to_remove, uiVars, jobVars, progVars, viewVars, xreq, xtotal, opened>>

\* open_system_file(&temp_path).unwrap() and the reset of the extraction slot.
ExtractFinish(x) ==
    /\ xpc[x] = "finish"
    /\ \/ /\ StateLockFree
          /\ opened' = Append(opened, xreq[x].name)
          /\ extraction_progress' = NoFraction
          /\ xpc' = [xpc EXCEPT ![x] = "ended"]
       \/ /\ xpc' = [xpc EXCEPT ![x] = "panicked"]
          /\ UNCHANGED <<opened, extraction_progress>>
    /\ UNCHANGED <<envVars, files_to_remove, uiVars, jobVars, progVars, viewVars, xreq, xdata, xprocessed,
                   xtotal, xfault, temp>>

\* update(): the presentation layer locks the progress state, draws the progress
\* bar of a cell that is Some, and unlocks.
UiPollBegin ==
    /\ uiPc = "idle"
    /\ StateLockFree
    /\ uiPc' = "polling"
    /\ UNCHANGED <<envVars, files_to_remove, selected_files, password, compression_sender, status_message,
                   cancelRxAlive, cancelRequested, jobPassword, jobVars, progVars,
                   viewVars, extVars>>

UiPollEnd ==
    /\ uiPc = "polling"
    /\ uiPc' = "idle"
    /\ UNCHANGED <<envVars, files_to_remove, selected_files, password, compression_sender, status_message,
                   cancelRxAlive, cancelRequested, jobPassword, jobVars, progVars,
                   viewVars, extVars>>

Next ==
    \/ StartCompress
    \/ CompressFilesReturn
    \/ CancelCompress
    \/ JobProbe
    \/ \E c \in Chunks : WorkerCheck(c)
    \/ \E c \in Chunks : WorkerRead(c)
    \/ \E c \in Chunks : WorkerLockZip(c)
    \/ \E c \in Chunks : WorkerStartFile(c)
    \/ \E c \in Chunks : WorkerWriteAll(c)
    \/ \E c \in Chunks : WorkerAdd(c)
    \/ \E c \in Chunks : WorkerLockStats(c)
    \/ \E c \in Chunks : WorkerEmit(c)
    \/ JobJoin
    \/ JobFinalize
    \/ ProgressRecv
    \/ ProgressEnd

Spec == Init /\ [][Next]_vars

\* The engine, started with the password "p" set and with no cancellation request
\* from the caller, under a scheduler that lets every thread that can take a step
\* take one: the UI thread inside compress_files, the job thread, each worker and
\* the progress thread.
WorkerStep(c) ==
    \/ WorkerCheck(c)
    \/ WorkerRead(c)
    \/ WorkerLockZip(c)
    \/ WorkerStartFile(c)
    \/ WorkerWriteAll(c)
    \/ WorkerAdd(c)
    \/ WorkerLockStats(c)
    \/ WorkerEmit(c)
JobStep == JobProbe \/ JobJoin \/ JobFinalize
ProgressStep == ProgressRecv \/ ProgressEnd

FairInit == Init /\ password = "p"

FairNext ==
    \/ StartCompress
    \/ CompressFilesReturn
    \/ JobStep
    \/ \E c \in Chunks : WorkerStep(c)
    \/ ProgressStep

FairSpec ==
    /\ FairInit
    /\ [][FairNext]_vars
    /\ WF_vars(CompressFilesReturn)
    /\ WF_vars(JobStep)
    /\ \A c \in Chunks : WF_vars(WorkerStep(c))
    /\ WF_vars(ProgressStep)

\* The engine with the viewer: a compression job over at most MaxViewFiles files of
\* non-zero length, all readable or one of them missing or unreadable, then the
\* user opens archives and entries.
ViewInit ==
    /\ Init
    /\ Len(selected_files) <= MaxViewFiles
    /\ diskFault = 0
    /\ \A i \in Ids : /\ fs[i].kind \in {"ok", "missing", "unreadable"}
                      /\ fs[i].base = BaseOf(i)
                      /\ fs[i].size = SizeOf("mixed", i)

\* The engine with the archive listing: the user drops archives on the extract zone
\* and sets passwords.
ListNext ==
    \/ Next
    \/ \E path \in Paths : OpenArchive(path)
    \/ ToggleSettings
    \/ \E value \in {""} \cup Passwords : SetPassword(value)

ListSpec == ViewInit /\ [][ListNext]_vars

\* The engine with the whole viewer: after a job with password "p" over readable
\* files the user also opens entries, up to MaxExtractors of them.
ExtractInit ==
    /\ ViewInit
    /\ password = "p"
    /\ \A i \in Ids : fs[i].kind = "ok"

ViewNext ==
    \/ ListNext
    \/ \E x \in Extractors, name \in EntryNames : OpenFile(x, name)
    \/ \E x \in Extractors : ExtractOpen(x)
    \/ \E x \in Extractors : ExtractRead(x)
    \/ \E x \in Extractors : ExtractFinish(x)

ViewSpec == ExtractInit /\ [][ViewNext]_vars

\* The engine and the viewer with the presentation layer's poll of the progress
\* state: a job with password "p" over readable files, either of one file, after
\* which the user turns to the viewer, or of more than MaxViewFiles files, one of
\* which may repeat the basename of the first.  The user opens at most
\* MaxLockExtractors entries.
LockInit ==
    /\ Init
    /\ password = "p"
    /\ diskFault = 0
    /\ \A i \in Ids : fs[i].kind = "ok" /\ fs[i].size = SizeOf("mixed", i)
    /\ \/ Len(selected_files) = 1
       \/ Len(selected_files) > MaxViewFiles

LockExtractors == 1..MaxLockExtractors

LockNext ==
    \/ ListNext
    \/ \E x \in LockExtractors, name \in EntryNames : OpenFile(x, name)
    \/ \E x \in LockExtractors : ExtractOpen(x)
    \/ \E x \in LockExtractors : ExtractRead(x)
    \/ \E x \in LockExtractors : ExtractFinish(x)
    \/ UiPollBegin
    \/ UiPollEnd

LockSpec == LockInit /\ [][LockNext]_vars

\* ------------------------------------------------ the file list (UI thread)
\* Vec::remove(index), index 0-based: the elements after it shift left.
RemoveAt(s, index) == SubSeq(s, 1, index) \o SubSeq(s, index + 2, Len(s))

\* sort_unstable_by(|a, b| b.cmp(a)): descending order, equal elements all kept.
RECURSIVE SortDescending(_)
SortDescending(s) ==
    IF s = <<>> THEN <<>>
    ELSE LET m == CHOOSE k \in DOMAIN s : \A j \in DOMAIN s : s[j] <= s[k]
         IN <<s[m]>> \o SortDescending(RemoveAt(s, m - 1))

\* for &index in &files_to_remove { if index < len { selected_files.remove(index) } }
RECURSIVE RemoveEach(_, _)
RemoveEach(list, marks) ==
    IF marks = <<>> THEN list
    ELSE RemoveEach(IF Head(marks) < Len(list) THEN RemoveAt(list, Head(marks)) ELSE list,
                    Tail(marks))

\* draw_file_list, the "x" button of row idx: files_to_remove.push(idx).
ClickRemove(idx) ==
    /\ uiPc = "idle"
    /\ idx < Len(selected_files)
    /\ Len(files_to_remove) < MaxMarks
    /\ files_to_remove' = Append(files_to_remove, idx)
    /\ UNCHANGED <<envVars, uiVars, jobVars, progVars, viewVars, extVars>>

\* draw_file_list, "Clear All" (shown for a non-empty list):
\* files_to_remove.extend(0..files.len()).
ClickClearAll ==
    /\ uiPc = "idle"
    /\ selected_files # <<>>
    /\ Len(files_to_remove) + Len(selected_files) <= MaxMarks
    /\ files_to_remove' = files_to_remove \o [k \in 1..Len(selected_files) |-> k - 1]
    /\ UNCHANGED <<envVars, uiVars, jobVars, progVars, viewVars, extVars>>

\* The "Add Files" button: selected_files.extend(files), here with one picked file.
AddFiles(i) ==
    /\ uiPc = "idle"
    /\ i \notin Range(selected_files)
    /\ Len(selected_files) < MaxFiles
    /\ selected_files' = Append(selected_files, i)
    /\ UNCHANGED <<envVars, files_to_remove, jobVars, progVars, viewVars, extVars, password,
                   compression_sender, status_message, uiPc, cancelRxAlive, cancelRequested,
                   jobPassword>>

\* cleanup_removed_files, at the end of a frame in which the pointer is not moving.
CleanupRemovedFiles ==
    /\ uiPc = "idle"
    /\ selected_files' = RemoveEach(selected_files, SortDescending(files_to_remove))
    /\ files_to_remove' = <<>>
    /\ UNCHANGED <<envVars, jobVars, progVars, viewVars, extVars, password,
                   compression_sender, status_message, uiPc, cancelRxAlive, cancelRequested,
                   jobPassword>>

\* The file list alone: the user adds files, marks rows over frames in which the
\* pointer moves (no cleanup), and a frame with a still pointer cleans up.
CleanupInit ==
    /\ Init
    /\ password = "none"
    /\ diskFault = 0
    /\ fs = FileSystem("mixed", 0, "missing")

CleanupNext ==
    \/ \E idx \in 0..(MaxFiles - 1) : ClickRemove(idx)
    \/ ClickClearAll
    \/ \E i \in Ids : AddFiles(i)
    \/ CleanupRemovedFiles

CleanupSpec == CleanupInit /\ [][CleanupNext]_vars

\* ================================================================== claims
Existing == {c \in Chunks : wpc[c] # "none"}
InputIds == Range(files)
AllReadable == \A i \in InputIds : fs[i].kind = "ok"
AllExist == \A i \in InputIds : fs[i].kind # "missing"
DistinctBasenames == \A i, j \in InputIds : i # j => FileName(i) # FileName(j)
FinalSent == sent # <<>> /\ sent[Len(sent)].fraction = One
EntriesNamed(entries, i) == {k \in DOMAIN entries : entries[k].name = FileName(i)}

\* C3: compress_files with a non-empty file set, a chosen destination and no
\* password launches a compression job; the missing password is no crash.  Every
\* step in which compress_files leaves the idle state with no password set and
\* files selected spawns the job thread.
C3_PasswordOptional ==
    [][(uiPc = "idle" /\ password = "none" /\ selected_files # <<>> /\ jobPc = "idle"
        /\ uiPc' # "idle")
       => (jobPc' = "probe" /\ uiPc' # "panic_compress")]_vars

\* C4: at most one worker is between start_file and the end of write_all, such a
\* worker holds the archive writer's lock, and a worker that is reading a source
\* file does not hold it.
InCritical(c) == wpc[c] \in {"start_file", "write_all"}
C4_WriterMutualExclusion ==
    /\ Cardinality({c \in Chunks : InCritical(c)}) <= 1
    /\ \A c \in Chunks : InCritical(c) => zipLock = c
    /\ \A c \in Chunks : wpc[c] \in {"check", "read"} => zipLock # c

\* C4 witness: one worker has started an entry while another has read its file and
\* waits for the writer.
C4_Witness ==
    \E c, d \in Chunks : c # d /\ wpc[c] = "write_all" /\ wpc[d] = "lock_zip"

\* C5: a job that finished without cancellation or error over existing files with
\* pairwise distinct basenames leaves a finalized archive with exactly one entry
\* per input file, named by its basename, and no other entry.
C5_EntriesAreInputs ==
    (jobResult = "ok" /\ ~cancelObserved /\ AllExist /\ DistinctBasenames)
    => /\ archive.state = "final"
       /\ Len(archive.entries) = Len(files)
       /\ \A i \in InputIds : Cardinality(EntriesNamed(archive.entries, i)) = 1
       /\ \A k \in DOMAIN archive.entries :
             \E i \in InputIds : archive.entries[k].name = FileName(i)

\* C5 witness: a finished job over two chunks whose second chunk's file was
\* appended first.
C5_Witness ==
    /\ jobResult = "ok" /\ ~cancelObserved /\ AllExist /\ DistinctBasenames
    /\ Len(files) > ChunkSize
    /\ archive.entries[1].name = FileName(files[ChunkSize + 1])

\* C6: the fractions sent on the progress channel are non-decreasing in the order
\* sent, and a job that finished without error sent 1.0 last.
C6_ProgressMonotone ==
    /\ \A i, j \in DOMAIN sent : i < j => FracLeq(sent[i].fraction, sent[j].fraction)
    /\ jobResult = "ok" => FinalSent

\* C6 witness: a finished job in which both workers sent snapshots, the second
\* chunk's worker between two sends of the first.
C6_Witness ==
    /\ jobResult = "ok"
    /\ Len(sent) >= 4
    /\ \E i \in DOMAIN sent : i + 2 <= Len(sent) /\
          ~FracEq(sent[i].fraction, sent[i + 1].fraction)
    /\ \A c \in Chunks : wpc[c] = "done"
    /\ archive.entries[2].name = FileName(files[ChunkSize + 1])

\* C7: once the caller has requested cancellation through the stored handle, a
\* worker that reaches its next file boundary returns without starting another
\* file.
C7_CancellationHonoured ==
    [][\A c \in Chunks :
         (cancelRequested /\ wpc[c] = "check" /\ wpc'[c] # "check")
         => wpc'[c] \in {"cancelled", "skipped"}]_vars

\* C8: after the workers of a job have observed cancellation the job sends no
\* further progress snapshot, in particular not the final (1.0, stats) one.
AllCancelled == Existing # {} /\ \A c \in Existing : wpc[c] = "cancelled"
C8_CancelledJobIsSilent == [][AllCancelled => sent' = sent]_vars

\* C9: a failed read or write in a worker ends compress_files_parallel with an
\* error that is returned and logged, without a crash of the job thread and
\* without the final snapshot.
C9_WorkerErrorIsReturned ==
    (jobPc = "ended" /\ \E c \in Chunks : wpc[c] = "failed")
    => (jobResult = "err" /\ logged /\ ~FinalSent)

\* C10 as stated: a file that is missing when the sizes are probed, or that cannot
\* be opened when its worker reaches it, is skipped: it adds nothing to total_size
\* and the job archives every other file, finalizes and sends the final snapshot.
OnlyFault(kinds) ==
    /\ DistinctBasenames
    /\ diskFault \notin InputIds
    /\ \A i \in InputIds : fs[i].kind \in {"ok"} \cup kinds
TotalExcludes(kinds) ==
    total_size = SeqSum([k \in DOMAIN files |->
                            IF fs[files[k]].kind \in kinds THEN 0 ELSE fs[files[k]].size])
OthersArchived ==
    \A i \in InputIds :
        fs[i].kind = "ok" => Cardinality(EntriesNamed(archive.entries, i)) = 1
JobCompleted ==
    jobResult = "ok" /\ FinalSent /\ archive.state = "final"
    /\ (~cancelObserved => OthersArchived)
C1_RoundTrip ==
    (jobResult = "ok" /\ AllReadable /\ DistinctBasenames)
    => /\ (lastOpen.path = "out" /\ lastOpen.pw = "none") => lastOpen.result = "listed"
       /\ current_archive.path = "out" =>
             \A i \in InputIds : \E k \in DOMAIN current_archive.files :
                 /\ current_archive.files[k].name = FileName(i)
                 /\ current_archive.files[k].size = fs[i].size
       /\ \A x \in Extractors :
             (xpc[x] = "ended" /\ xfault[x] = "none" /\ xreq[x].path = "out")
             => \A i \in InputIds :
                    FileName(i) = xreq[x].name => temp[xreq[x].name] = Content(i)

\* C2: the archive of a job run with password P opens and lists with P, yields
\* WrongPassword with another password and NeedsPassword with none.
C2_PasswordRoundTrip ==
    (jobResult = "ok" /\ ~cancelObserved /\ archive.entries # <<>> /\
     lastOpen.path = "out")
    => /\ lastOpen.pw = jobPassword => lastOpen.result = "listed"
       /\ lastOpen.pw = "none" => lastOpen.result = "needs_password"
       /\ lastOpen.pw \notin {"none", jobPassword} => lastOpen.result = "invalid_password"

\* C11: a worker sends a snapshot only when the fraction has crossed a new
\* whole-percent boundary: of two consecutive snapshots sent by workers the later
\* one lies in a higher whole percent, so that the workers send at most 100.
WholePercent(f) == (100 * f.num) \div f.den
WorkerSends == SelectSeq(sent, LAMBDA s : s.fraction # One)
C11_ThrottledToPercent ==
    /\ Len(WorkerSends) <= 100
    /\ \A k \in DOMAIN WorkerSends :
          k > 1 => WholePercent(WorkerSends[k].fraction)
                      > WholePercent(WorkerSends[k - 1].fraction)

\* The entry an extraction request names, when the archive has it.
ReqFile(x) == DiskArchive(xreq[x].path)
ReqIndex(x) ==
    IF ReqFile(x).state = "final" THEN ByName(ReqFile(x).entries, xreq[x].name) ELSE 0
ProtectedReq(x) == ReqIndex(x) # 0 /\ ReqFile(x).entries[ReqIndex(x)].encrypted
AbsentReq(x) == ReqFile(x).state = "final" /\ ReqIndex(x) = 0

\* C12: an extraction of a protected entry while no password is set ends in a
\* NeedsPassword signal: the extraction thread does not crash, the request stays
\* open for a retry and nothing is written under the temporary directory.
C12_ExtractNeedsPassword ==
    [][\A x \in Extractors :
         (xpc[x] = "open" /\ xpc'[x] # "open" /\ ProtectedReq(x) /\ password = "none")
         => (xpc'[x] = "needs_password" /\ temp' = temp)]_vars

\* C13: a request for a name the archive has no entry for ends in a lookup error
\* reported for that request, not in a crash of its thread, and creates no file
\* under the temporary directory.
C13_AbsentNameIsLookupError ==
    \A x \in Extractors :
        (xpc[x] \notin {"idle", "open"} /\ AbsentReq(x))
        => (xpc[x] = "lookup_error" /\ temp[xreq[x].name] = "absent")

\* C14: the system handler is invoked once for each request that streamed its
\* entry completely and never for a request whose stream was cut by a read or
\* write error: for every name, the handler was invoked as many times as there
\* are ended requests for it that met no error, and an extraction that met a read
\* error never reaches the handler.
OpenCount(name) == Cardinality({k \in DOMAIN opened : opened[k] = name})
CompleteRequests(name) ==
    {x \in Extractors : xreq[x].name = name /\ xpc[x] = "ended" /\ xfault[x] = "none"}
C14_OpenedOnceIffComplete ==
    /\ \A name \in EntryNames : OpenCount(name) = Cardinality(CompleteRequests(name))
    /\ \A x \in Extractors : xfault[x] # "none" => xpc[x] \in {"finish", "aborted"}

\* C15: the compression progress cell is None whenever no compression job is in
\* progress, before the first job and again once the job has ended.
JobInProgress == jobPc \in {"probe", "workers", "finalize"}
C15_IdleCellIsNone == ~JobInProgress => compression_progress = NoSnapshot

\* An archive whose entries are all protected, and the status messages.
Protected(path) ==
    LET file == DiskArchive(path)
    IN /\ file.state = "final"
       /\ file.entries # <<>>
       /\ \A k \in DOMAIN file.entries : file.entries[k].encrypted
UnlockedBy(path, pw) ==
    \A k \in DOMAIN DiskArchive(path).entries : DiskArchive(path).entries[k].key = pw
IoErrorMessage == "Error handling dropped file: io_error"

\* C16: open_archive on a protected archive while no password is set returns
\* without error, sets the password-needed status message, shows the settings and
\* leaves current_archive as it was.
C16_NeedsPasswordPauses ==
    [][\A path \in Paths :
         (password = "none" /\ Protected(path) /\ OpenArchive(path))
         => /\ lastOpen'.result = "needs_password"
            /\ uiPc' = uiPc
            /\ status_message' = NeedsPasswordMessage
            /\ show_settings'
            /\ current_archive' = current_archive]_vars

\* C16 witness: the protected archive was dropped with no password set while the
\* listing of the job's output was shown, and the listing is still there.
C16_Witness ==
    /\ lastOpen = [path |-> "foreign", pw |-> "none", result |-> "needs_password"]
    /\ status_message = NeedsPasswordMessage
    /\ show_settings
    /\ current_archive.path = "out"
    /\ current_archive.files # <<>>

\* C17: open_archive on a protected archive with a password that does not unlock
\* it reports the wrong password, with a message that differs from the one of an
\* I/O error, does not crash and leaves current_archive as it was.
C17_WrongPasswordIsDistinct ==
    [][\A path \in Paths :
         (password # "none" /\ Protected(path) /\ ~UnlockedBy(path, password)
          /\ OpenArchive(path))
         => /\ lastOpen'.result = "invalid_password"
            /\ uiPc' = uiPc
            /\ status_message' = "Error handling dropped file: invalid_password"
            /\ status_message' # IoErrorMessage
            /\ current_archive' = current_archive]_vars

\* C17 witness: the protected archive was dropped with the wrong password while
\* the listing of the job's output was shown, and the listing is still there.
C17_Witness ==
    /\ lastOpen = [path |-> "foreign", pw |-> "q", result |-> "invalid_password"]
    /\ status_message = "Error handling dropped file: invalid_password"
    /\ current_archive.path = "out"
    /\ current_archive.files # <<>>

\* C18: in a job whose caller never requested cancellation no worker takes the
\* cancellation return, so a job that ends without error has appended every file
\* that could be probed.
C18_NoSpuriousCancellation ==
    ~cancelRequested
    => /\ \A c \in Chunks : wpc[c] # "cancelled"
       /\ jobResult = "ok" => Len(archive.entries) = Len(file_metadata)

\* C19: the extraction slot is None exactly when no extraction is in flight: it is
\* not None while a request that has reported a chunk is still streaming, also
\* when another request has finished meanwhile, and it is None once every request
\* has ended, with or without success.
Streaming(x) == xpc[x] = "stream" /\ xprocessed[x] > 0
ExtractionOver(x) == xpc[x] \in {"idle", "ended", "panicked"}
C19_SlotTracksExtractions ==
    /\ (\E x \in Extractors : Streaming(x)) => extraction_progress # NoFraction
    /\ (\A x \in Extractors : ExtractionOver(x)) => extraction_progress = NoFraction

\* C20: no state has a thread that holds a lock and cannot go on: the worker that
\* holds the archive writer can write, the worker that holds the processed counter
\* can take the stats record (nobody holds it while waiting for the counter) and
\* send, and the presentation layer that holds the progress state can release it,
\* so every thread that waits for a lock gets it.
C20_LockHoldersProceed ==
    /\ zipLock # 0 => ENABLED (WorkerStartFile(zipLock) \/ WorkerWriteAll(zipLock))
    /\ processedLock # 0 =>
          ENABLED (WorkerLockStats(processedLock) \/ WorkerEmit(processedLock))
    /\ \A c \in Chunks : wpc[c] = "send" => (processedLock = c /\ ENABLED WorkerEmit(c))
    /\ ~StateLockFree => ENABLED UiPollEnd

\* C20 witness: one worker waits for the processed counter, whose holder has taken
\* the stats record, while the progress thread waits with a snapshot for the
\* progress state the presentation layer holds.
C20_Witness ==
    /\ \E c, d \in Chunks :
          c # d /\ wpc[c] = "add" /\ processedLock = d /\ wpc[d] = "send"
    /\ ~StateLockFree
    /\ progressPc = "recv" /\ recvd < Len(sent)

\* C21: the progress thread stores the snapshots in the order they were sent (the
\* cell holds the last one received, none is skipped), a job that ended without
\* error leads to the cell holding its final (1.0, stats) snapshot for good, and a
\* job that has ended, however it ended, leads to the end of the progress thread.
StoredInOrder ==
    /\ recvd <= Len(sent)
    /\ compression_progress = IF recvd = 0 THEN NoSnapshot ELSE sent[recvd]
HoldsFinal == FinalSent /\ compression_progress = sent[Len(sent)]
Marked == Range(files_to_remove)
Unmarked(list) == SelectSeq([k \in DOMAIN list |-> <<k - 1, list[k]>>],
                            LAMBDA e : e[1] \notin Marked)
UnmarkedFiles(list) == [k \in DOMAIN Unmarked(list) |-> Unmarked(list)[k][2]]
C22_CleanupRemovesMarked ==
    [][CleanupRemovedFiles =>
          /\ selected_files' = UnmarkedFiles(selected_files)
          /\ files_to_remove' = <<>>]_vars

====
